---- MODULE Spec2Model ----
(***************************************************************************)
(* Model of the bridge server of claude-telegram-bridge                    *)
(* (src/src/bridge_server.py): the State Store (pending_approvals,         *)
(* active_sessions, message_queues, message_to_request, bridge_paused,     *)
(* state_lock), the /approve coroutine cut at its suspension points, the   *)
(* /send_message long poll, the session endpoints and the chat handlers.   *)
(*                                                                         *)
(* Scheduling: asyncio tasks interleave only where they suspend.  A        *)
(* section "async with state_lock: ..." without an await inside is one     *)
(* action guarded by the lock being free; the chat handlers that await     *)
(* chat I/O inside the section keep the lock over several actions.  The    *)
(* chat dispatcher handles one update at a time (the Application is built  *)
(* without concurrent updates, bridge_server.py:676-680).                  *)
(***************************************************************************)
EXTENDS Integers, Sequences, FiniteSets, TLC

\* ---- bounds of the model ------------------------------------------------
MaxCalls == 2          \* /approve calls; call i draws request_id i
MaxUpdates == 2        \* chat updates that change the store
MaxPollTimeout == 1    \* largest timeout a /send_message caller passes

\* ---- inputs -------------------------------------------------------------
AgentIds == {"main", "w1"}
AgentNames == {"CC"}
CallIds == 1..MaxCalls
UnknownId == 0                      \* a request_id no call ever drew
ButtonActions == {"approve", "deny", "approve_all"}

\* sent_message is None until a prompt send succeeds
NoMessage == 0
\* message_id of the prompt of request rid (chat message ids are unique)
PromptMid(rid) == 100 + rid
PromptMids == {PromptMid(r) : r \in CallIds}
\* update.message.reply_to_message: absent, a prompt, another bot message,
\* or a message of the operator
NoReply == 0
OtherBotMsg == 1
UserMsg == 2
ReplyTargets == {NoReply, OtherBotMsg, UserMsg} \cup PromptMids
\* the text of the n-th such update (each text is told apart from the others)
Text(n) == "m" \o ToString(n)
Texts == {Text(n) : n \in 1..MaxUpdates}

VARIABLES
    pending_approvals,   \* request_id -> record (dict, bridge_server.py:67)
    active_sessions,     \* agent_id -> session
    message_queues,      \* agent_id -> sequence of texts
    message_to_request,  \* prompt message_id -> request_id
    state_lock,          \* "free" or the task holding it
    bridge_paused,
    shutdown_scheduled,  \* os._exit has been scheduled (bridge_server.py:472)
    process,             \* run_both: its position, the chat poller, the exit
    hook,                \* one run of the pre-tool hook (hook_pre_tool_use.py)
    calls,               \* the /approve coroutines, one per call
    chat,                \* position of the chat dispatcher's current handler
    poll,                \* the /send_message coroutine
    updates,             \* history: chat updates that changed the store so far
    accepted,            \* history: resolution events written per request_id
    delivered,           \* history: text -> times handed to a hook
    dropped              \* history: texts removed from a queue undelivered

store == <<pending_approvals, active_sessions, message_queues,
           message_to_request, bridge_paused>>
history == <<updates, accepted, delivered, dropped>>
vars == <<pending_approvals, active_sessions, message_queues,
          message_to_request, state_lock, bridge_paused, shutdown_scheduled,
          process, hook, calls, chat, poll, updates, accepted, delivered, dropped>>

\* ---- dict helpers -------------------------------------------------------
\* {}
EmptyDict == [x \in {} |-> 0]
\* d[k] = v on a dict d (the key is added when absent)
Put(d, k, v) == [x \in DOMAIN d \cup {k} |-> IF x = k THEN v ELSE d[x]]
\* d.pop(k, None)
Pop(d, k) == [x \in DOMAIN d \ {k} |-> d[x]]
\* the elements of a sequence
Range(s) == {s[i] : i \in DOMAIN s}

\* ---- responses ----------------------------------------------------------
\* what the HTTP caller of /approve receives; request_id 0: key absent
NoResp == [status |-> 0, decision |-> "", reason |-> "", request_id |-> 0]
Resp(d, r, id) == [status |-> 200, decision |-> d, reason |-> r, request_id |-> id]
\* an exception leaving request_approval: FastAPI answers 500, no decision
ServerError == [status |-> 500, decision |-> "", reason |-> "", request_id |-> 0]

IdleCall == [pc |-> "idle", agent_id |-> "main", agent_name |-> "CC",
             pending_messages |-> <<>>, sent_message |-> NoMessage,
             chatted |-> FALSE, resp |-> NoResp]

\* "\n".join(msgs)
RECURSIVE Join(_)
Join(msgs) ==
    IF msgs = <<>> THEN ""
    ELSE IF Len(msgs) = 1 THEN msgs[1]
    ELSE msgs[1] \o "\n" \o Join(Tail(msgs))

\* pending_messages + ([user_message] if user_message else [])
AllMessagesSwapped(pending_messages, user_message) ==
    IF user_message # "" THEN <<user_message>> \o pending_messages
    ELSE pending_messages
AllMessages(pending_messages, user_message) ==
    IF user_message # "" THEN Append(pending_messages, user_message)
    ELSE pending_messages

\* the reason returned by /approve (bridge_server.py:276-278)
ComposeReason(reason, all_messages) ==
    IF all_messages # <<>>
    THEN reason \o "\n\nUser instructions:\n" \o Join(all_messages)
    ELSE reason

\* run_both once the poller is started and server.serve() is awaited
\* (bridge_server.py:699, 718)
Started == [supervisor |-> "serve", poller |-> "polling", exited |-> FALSE]

\* the hook process before it is started; emitted: what it printed on
\* stdout; called: the bridge endpoints it has requested
IdleHook == [pc |-> "idle", mode |-> "telegram", tool_name |-> "unknown",
             agent_id |-> "main", emitted |-> <<>>, answers |-> <<>>]

Init ==
    /\ pending_approvals = EmptyDict
    /\ active_sessions = EmptyDict
    /\ message_queues = EmptyDict
    /\ message_to_request = EmptyDict
    /\ state_lock = "free"
    /\ bridge_paused = FALSE
    /\ shutdown_scheduled = FALSE
    /\ process = Started
    /\ hook = IdleHook
    /\ calls = [i \in CallIds |-> IdleCall]
    /\ chat = "idle"
    /\ poll = [pc |-> "idle", agent_id |-> "main", left |-> 0, messages |-> <<>>]
    /\ updates = 0
    /\ accepted = [r \in CallIds |-> <<>>]
    /\ delivered = [t \in Texts |-> 0]
    /\ dropped = {}

\* ---- POST /approve: request_approval (bridge_server.py:148-280) ----------
\* The coroutine of call i, cut where it can suspend: acquiring state_lock,
\* the chat sends, and the wait on the record's event.

\* the record stored at bridge_server.py:202-211 (tool_name and created_at
\* are only displayed and are left out)
NewApproval(agent_id, agent_name) ==
    [event |-> FALSE, response |-> "None", reason |-> "", user_message |-> "",
     agent_id |-> agent_id, agent_name |-> agent_name]

\* lines 154-160: the pause check, then a fresh request_id
PausedCheckSkipped(i, a, n) ==
    calls' = [calls EXCEPT ![i] = [IdleCall EXCEPT !.pc = "peek",
                                       !.agent_id = a, !.agent_name = n]]
PausedCheck(i, a, n) ==
    IF bridge_paused
    THEN calls' = [calls EXCEPT ![i] =
             [IdleCall EXCEPT !.pc = "done", !.agent_id = a, !.agent_name = n,
                              !.resp = [status |-> 200, decision |-> "passthrough",
                                        reason |-> "bridge_paused", request_id |-> 0]]]
    ELSE calls' = [calls EXCEPT ![i] = [IdleCall EXCEPT !.pc = "peek",
                                       !.agent_id = a, !.agent_name = n]]

ApproveCall(i, a, n) ==
    /\ calls[i].pc = "idle"
    /\ \A j \in CallIds : j < i => calls[j].pc # "idle"
    /\ PausedCheck(i, a, n)
    /\ UNCHANGED <<store, state_lock, chat, poll, history>>
    /\ UNCHANGED <<shutdown_scheduled, process, hook>>

\* lines 163-166: copy of the agent's queue, taken under the lock
ApprovePeek(i) ==
    /\ calls[i].pc = "peek"
    /\ state_lock = "free"
    /\ LET a == calls[i].agent_id
           q == IF a \in DOMAIN message_queues /\ message_queues[a] # <<>>
                THEN message_queues[a] ELSE <<>>
       IN calls' = [calls EXCEPT ![i].pc = "create", ![i].pending_messages = q]
    /\ UNCHANGED <<store, state_lock, chat, poll, history>>
    /\ UNCHANGED <<shutdown_scheduled, process, hook>>

\* lines 200-211: the record is stored under the lock
ApproveCreate(i) ==
    /\ calls[i].pc = "create"
    /\ state_lock = "free"
    /\ pending_approvals' =
           Put(pending_approvals, i, NewApproval(calls[i].agent_id, calls[i].agent_name))
    /\ calls' = [calls EXCEPT ![i].pc = "send"]
    /\ UNCHANGED <<active_sessions, message_queues, message_to_request, bridge_paused,
                   state_lock, chat, poll, history>>
    /\ UNCHANGED <<shutdown_scheduled, process, hook>>

\* lines 214-220: the prompt with rich markup; ok is the outcome of the send
ApproveSend(i, ok) ==
    /\ calls[i].pc = "send"
    /\ calls' = [calls EXCEPT ![i].chatted = TRUE,
                              ![i].pc = IF ok THEN "map" ELSE "retry",
                              ![i].sent_message = IF ok THEN PromptMid(i) ELSE NoMessage]
    /\ UNCHANGED <<store, state_lock, chat, poll, history>>
    /\ UNCHANGED <<shutdown_scheduled, process, hook>>

\* lines 221-242: the plain-text retry sits in the except clause, so its
\* own failure leaves request_approval as an exception
ApproveRetry(i, ok) ==
    /\ calls[i].pc = "retry"
    /\ calls' = [calls EXCEPT ![i].chatted = TRUE,
                              ![i].pc = IF ok THEN "map" ELSE "done",
                              ![i].sent_message = IF ok THEN PromptMid(i) ELSE NoMessage,
                              ![i].resp = IF ok THEN NoResp ELSE ServerError]
    /\ UNCHANGED <<store, state_lock, chat, poll, history>>
    /\ UNCHANGED <<shutdown_scheduled, process, hook>>

\* lines 245-247
ApproveMap(i) ==
    /\ calls[i].pc = "map"
    /\ state_lock = "free"
    /\ message_to_request' = Put(message_to_request, calls[i].sent_message, i)
    /\ calls' = [calls EXCEPT ![i].pc = "wait"]
    /\ UNCHANGED <<pending_approvals, active_sessions, message_queues, bridge_paused,
                   state_lock, chat, poll, history>>
    /\ UNCHANGED <<shutdown_scheduled, process, hook>>

\* the event object of call i (the record keeps a reference to it)
EventSet(i) == i \in DOMAIN pending_approvals /\ pending_approvals[i].event

\* line 251: wait_for returns because the event is set
ApproveWake(i) ==
    /\ calls[i].pc = "wait"
    /\ EventSet(i)
    /\ calls' = [calls EXCEPT ![i].pc = "take"]
    /\ UNCHANGED <<store, state_lock, chat, poll, history>>
    /\ UNCHANGED <<shutdown_scheduled, process, hook>>

\* lines 251-252: the deadline fires before the coroutine has resumed
\* (wait_for cancels the wait; a set() in the same loop iteration as the
\* timer does not undo that)
ApproveDeadline(i) ==
    /\ calls[i].pc = "wait"
    /\ calls' = [calls EXCEPT ![i].pc = "expire"]
    /\ UNCHANGED <<store, state_lock, chat, poll, history>>
    /\ UNCHANGED <<shutdown_scheduled, process, hook>>

\* the timeout path popping the record only
ApproveExpireKeepsMapping(i) ==
    /\ calls[i].pc = "expire"
    /\ state_lock = "free"
    /\ pending_approvals' = Pop(pending_approvals, i)
    /\ calls' = [calls EXCEPT ![i].pc = "notice"]
    /\ UNCHANGED <<active_sessions, message_queues, message_to_request, bridge_paused,
                   state_lock, chat, poll, history>>
    /\ UNCHANGED <<shutdown_scheduled, process, hook>>

\* the timeout path clearing the agent's queue as the signaled path does
ApproveExpireClearsQueue(i) ==
    /\ calls[i].pc = "expire"
    /\ state_lock = "free"
    /\ pending_approvals' = Pop(pending_approvals, i)
    /\ message_to_request' =
           IF calls[i].sent_message # NoMessage
           THEN Pop(message_to_request, calls[i].sent_message)
           ELSE message_to_request
    /\ message_queues' =
           IF calls[i].agent_id \in DOMAIN message_queues
           THEN [message_queues EXCEPT ![calls[i].agent_id] = <<>>]
           ELSE message_queues
    /\ calls' = [calls EXCEPT ![i].pc = "notice"]
    /\ UNCHANGED <<active_sessions, bridge_paused,
                   state_lock, chat, poll, history>>
    /\ UNCHANGED <<shutdown_scheduled, process, hook>>

\* lines 253-256
ApproveExpire(i) ==
    /\ calls[i].pc = "expire"
    /\ state_lock = "free"
    /\ pending_approvals' = Pop(pending_approvals, i)
    /\ message_to_request' =
           IF calls[i].sent_message # NoMessage
           THEN Pop(message_to_request, calls[i].sent_message)
           ELSE message_to_request
    /\ calls' = [calls EXCEPT ![i].pc = "notice"]
    /\ UNCHANGED <<active_sessions, message_queues, bridge_paused,
                   state_lock, chat, poll, history>>
    /\ UNCHANGED <<shutdown_scheduled, process, hook>>

\* lines 257-261: the expiration notice, then the timeout answer; a failed
\* send raises out of the handler
ApproveNotice(i, ok) ==
    /\ calls[i].pc = "notice"
    /\ calls' = [calls EXCEPT ![i].chatted = TRUE,
                              ![i].pc = "done",
                              ![i].resp = IF ok
                                          THEN [status |-> 200, decision |-> "deny",
                                                reason |-> "timeout", request_id |-> 0]
                                          ELSE ServerError]
    /\ UNCHANGED <<store, state_lock, chat, poll, history>>
    /\ UNCHANGED <<shutdown_scheduled, process, hook>>

\* pending_approvals.pop(request_id, {}) and the three result.get(...)
TakeResult(i) ==
    IF i \in DOMAIN pending_approvals
    THEN [response |-> pending_approvals[i].response,
          reason |-> pending_approvals[i].reason,
          user_message |-> pending_approvals[i].user_message]
    ELSE [response |-> "deny", reason |-> "", user_message |-> ""]

\* counts one delivery for each text of msgs
Deliver(d, msgs) == [t \in DOMAIN d |-> IF t \in Range(msgs) THEN d[t] + 1 ELSE d[t]]

\* lines 263-280
ApproveTake(i) ==
    /\ calls[i].pc = "take"
    /\ state_lock = "free"
    /\ LET a == calls[i].agent_id
           result == TakeResult(i)
           all_messages == AllMessages(calls[i].pending_messages, result.user_message)
           queued == IF a \in DOMAIN message_queues THEN message_queues[a] ELSE <<>>
       IN /\ pending_approvals' = Pop(pending_approvals, i)
          /\ message_to_request' =
                 IF calls[i].sent_message # NoMessage
                 THEN Pop(message_to_request, calls[i].sent_message)
                 ELSE message_to_request
          /\ message_queues' =
                 IF a \in DOMAIN message_queues
                 THEN [message_queues EXCEPT ![a] = <<>>]
                 ELSE message_queues
          /\ calls' = [calls EXCEPT
                 ![i].pc = "done",
                 ![i].resp = Resp(result.response,
                                  ComposeReason(result.reason, all_messages), i)]
          /\ delivered' = Deliver(delivered, all_messages)
          /\ dropped' = dropped \cup (Range(queued) \ Range(all_messages))
    /\ UNCHANGED <<active_sessions, bridge_paused, state_lock, chat, poll,
                   updates, accepted>>
    /\ UNCHANGED <<shutdown_scheduled, process, hook>>

\* ---- chat handlers (bridge_server.py:392-613) ---------------------------
\* The dispatcher takes the next update when the previous handler has
\* returned.  auth: the update comes from TELEGRAM_CHAT_ID.  A reply the
\* handler sends after its last access to the store, holding no lock, is
\* part of the handler's action; chat I/O awaited inside the with-block is
\* a position of its own (chat = "answer", "edit", "reply_locked").

\* info["response"] = ...; info["reason"] = ...; info["event"].set()
Complete(info, response, reason) ==
    [info EXCEPT !.response = response, !.reason = reason, !.event = TRUE]

\* the history entry of one write of a result slot; by: the button pressed,
\* "reply" or "bulk"
Event(by, response, reason, text) ==
    [by |-> by, response |-> response, reason |-> reason, text |-> text]

\* message_queues[agent_id].append(text), creating the queue when absent
Enqueue(q, agent_id, text) ==
    Put(q, agent_id, Append(IF agent_id \in DOMAIN q THEN q[agent_id] ELSE <<>>, text))

\* the session written with the flag left off
AutoApproveSessionOff(agent_id, agent_name) ==
    [name |-> agent_name, auto_approve |-> FALSE]

\* active_sessions.get(agent_id, {}) with auto_approve and name overwritten
\* (lines 550-554); the registered_at timestamp is left out
AutoApproveSession(agent_id, agent_name) ==
    [name |-> agent_name, auto_approve |-> TRUE]

\* the decision and the reason a button writes (lines 526-548)
ButtonResponseAlwaysApprove(action) == "approve"
ButtonResponse(action) == IF action = "deny" THEN "deny" ELSE "approve"
ButtonReason(action) ==
    CASE action = "approve" -> "user approved"
      [] action = "deny" -> "user denied"
      [] action = "approve_all" -> "user approved (session auto-approve enabled)"

\* handle_callback (lines 509-558): a button press action:request_id
HandleCallback(auth, action, rid) ==
    /\ chat = "idle"
    /\ IF ~auth
       THEN \* lines 512-514
            UNCHANGED <<store, state_lock, chat, updates, accepted>>
       ELSE /\ state_lock = "free"
            /\ state_lock' = "chat"
            /\ IF rid \notin DOMAIN pending_approvals
               THEN \* lines 520-522: the alert is awaited under the lock
                    /\ chat' = "reply_locked"
                    /\ UNCHANGED <<store, updates, accepted>>
               ELSE /\ updates < MaxUpdates
                    /\ updates' = updates + 1
                    /\ pending_approvals' =
                           [pending_approvals EXCEPT ![rid] =
                               Complete(@, ButtonResponse(action), ButtonReason(action))]
                    /\ accepted' = [accepted EXCEPT ![rid] =
                           Append(@, Event(action, ButtonResponse(action),
                                           ButtonReason(action), ""))]
                    /\ active_sessions' =
                           IF action = "approve_all"
                           THEN Put(active_sessions, pending_approvals[rid].agent_id,
                                    AutoApproveSession(pending_approvals[rid].agent_id,
                                                       pending_approvals[rid].agent_name))
                           ELSE active_sessions
                    /\ chat' = "answer"
                    /\ UNCHANGED <<message_queues, message_to_request, bridge_paused>>
    /\ UNCHANGED <<calls, poll, delivered, dropped>>
    /\ UNCHANGED <<shutdown_scheduled, process, hook>>

\* every free text queued for "main", whatever it replies to
RouteAgentAlwaysMain(target, mention) == "main"

\* the agent a free text is queued for (lines 592-601); mention: the agent
\* id found in the text of the replied-to message, "none" when there is none
RouteAgent(target, mention) ==
    IF target \in {OtherBotMsg} \cup PromptMids
       /\ mention \in DOMAIN active_sessions \cup {"main"}
    THEN mention
    ELSE "main"

\* whether a text replies to the prompt of a record still stored (lines 573-578)
RepliesToPending(target) ==
    /\ target # NoReply
    /\ target \in DOMAIN message_to_request
    /\ message_to_request[target] \in DOMAIN pending_approvals

\* handle_text_message (lines 561-613)
HandleText(auth, target, mention) ==
    /\ chat = "idle"
    /\ IF ~auth
       THEN UNCHANGED <<store, state_lock, chat, updates, accepted>>
       ELSE /\ state_lock = "free"
            /\ updates < MaxUpdates
            /\ updates' = updates + 1
            /\ IF RepliesToPending(target)
               THEN \* lines 577-589: the acknowledgement is awaited under the lock
                    LET request_id == message_to_request[target] IN
                    /\ pending_approvals' =
                           [pending_approvals EXCEPT ![request_id] =
                               [Complete(@, "approve", "approved with instructions")
                                   EXCEPT !.user_message = Text(updates + 1)]]
                    /\ accepted' = [accepted EXCEPT ![request_id] =
                           Append(@, Event("reply", "approve",
                                           "approved with instructions", Text(updates + 1)))]
                    /\ state_lock' = "chat"
                    /\ chat' = "reply_locked"
                    /\ UNCHANGED <<active_sessions, message_queues,
                                   message_to_request, bridge_paused>>
               ELSE \* lines 591-613
                    /\ message_queues' =
                           Enqueue(message_queues, RouteAgent(target, mention),
                                   Text(updates + 1))
                    /\ UNCHANGED <<pending_approvals, active_sessions,
                                   message_to_request, bridge_paused,
                                   state_lock, chat, accepted>>
    /\ UNCHANGED <<calls, poll, delivered, dropped>>
    /\ UNCHANGED <<shutdown_scheduled, process, hook>>

\* cmd_msg (lines 392-416); valid: the command carries an agent id and a text
CmdMsg(auth, valid, agent_id) ==
    /\ chat = "idle"
    /\ IF ~auth \/ ~valid
       THEN UNCHANGED <<store, updates>>
       ELSE /\ state_lock = "free"
            /\ updates < MaxUpdates
            /\ updates' = updates + 1
            /\ message_queues' = Enqueue(message_queues, agent_id, Text(updates + 1))
            /\ UNCHANGED <<pending_approvals, active_sessions,
                           message_to_request, bridge_paused>>
    /\ UNCHANGED <<state_lock, chat, calls, poll, accepted, delivered, dropped>>
    /\ UNCHANGED <<shutdown_scheduled, process, hook>>

\* the loop of cmd_approve_all / cmd_deny_all over pending_approvals.items()
BulkComplete(response, reason) ==
    [r \in DOMAIN pending_approvals |-> Complete(pending_approvals[r], response, reason)]

\* cmd_approve_all (lines 436-446) and cmd_deny_all (lines 449-459)
CmdBulk(auth, response, reason) ==
    /\ chat = "idle"
    /\ IF ~auth
       THEN UNCHANGED <<store, updates, accepted>>
       ELSE /\ state_lock = "free"
            /\ updates < MaxUpdates
            /\ updates' = updates + 1
            /\ pending_approvals' = BulkComplete(response, reason)
            /\ accepted' = [r \in CallIds |->
                   IF r \in DOMAIN pending_approvals
                   THEN Append(accepted[r], Event("bulk", response, reason, ""))
                   ELSE accepted[r]]
            /\ UNCHANGED <<active_sessions, message_queues,
                           message_to_request, bridge_paused>>
    /\ UNCHANGED <<state_lock, chat, calls, poll, delivered, dropped>>
    /\ UNCHANGED <<shutdown_scheduled, process, hook>>

CmdApproveAll(auth) == CmdBulk(auth, "approve", "bulk approved")
CmdDenyAll(auth) == CmdBulk(auth, "deny", "bulk denied")

\* cmd_pause / cmd_resume without the check of the chat id
CmdSetPausedUnchecked(auth, value) ==
    /\ chat = "idle"
    /\ bridge_paused' = value
    /\ UNCHANGED <<pending_approvals, active_sessions, message_queues,
                   message_to_request, state_lock, chat, calls, poll,
                   history, shutdown_scheduled, process, hook>>

\* cmd_pause (lines 481-493) and cmd_resume (lines 496-506)
CmdSetPaused(auth, value) ==
    /\ chat = "idle"
    /\ IF auth
       THEN /\ updates < MaxUpdates
            /\ updates' = updates + 1
            /\ bridge_paused' = value
       ELSE UNCHANGED <<bridge_paused, updates>>
    /\ UNCHANGED <<pending_approvals, active_sessions, message_queues,
                   message_to_request, state_lock, chat, calls, poll,
                   accepted, delivered, dropped>>
    /\ UNCHANGED <<shutdown_scheduled, process, hook>>

CmdPause(auth) == CmdSetPaused(auth, TRUE)
CmdResume(auth) == CmdSetPaused(auth, FALSE)

\* cmd_start (lines 327-346): a reply in either case, nothing else
CmdStart(auth) ==
    /\ chat = "idle"
    /\ UNCHANGED vars

\* cmd_status (lines 349-375): the store is read under the lock, the reply
\* is sent after the with-block
CmdStatus(auth) ==
    /\ chat = "idle"
    /\ auth => state_lock = "free"
    /\ UNCHANGED vars

\* cmd_agents (lines 378-389) and cmd_pending (lines 419-433): with nothing
\* to list the reply is awaited inside the with-block
CmdList(auth, listed) ==
    /\ chat = "idle"
    /\ IF auth
       THEN /\ state_lock = "free"
            /\ IF DOMAIN listed = {}
               THEN state_lock' = "chat" /\ chat' = "reply_locked"
               ELSE UNCHANGED <<state_lock, chat>>
       ELSE UNCHANGED <<state_lock, chat>>
    /\ UNCHANGED <<store, calls, poll, history, shutdown_scheduled, process, hook>>

CmdAgents(auth) == CmdList(auth, active_sessions)
CmdPending(auth) == CmdList(auth, pending_approvals)

\* cmd_shutdown (lines 462-478); confirm: the first argument is "confirm".
\* The exit itself, one second later, is the step ProcessExit.
CmdShutdown(auth, confirm) ==
    /\ chat = "idle"
    /\ shutdown_scheduled' = IF auth /\ confirm THEN TRUE ELSE shutdown_scheduled
    /\ UNCHANGED <<process, hook>>
    /\ UNCHANGED <<store, state_lock, calls, chat, poll, history>>

\* query.answer(...) of an accepted button returns (ok) or raises
ChatAnswer(ok) ==
    /\ chat = "answer"
    /\ chat' = IF ok THEN "edit" ELSE "idle"
    /\ state_lock' = IF ok THEN "chat" ELSE "free"
    /\ UNCHANGED <<store, calls, poll, history>>
    /\ UNCHANGED <<shutdown_scheduled, process, hook>>

\* query.edit_message_text(...) ends; the with-block releases the lock
ChatEdit ==
    /\ chat = "edit"
    /\ chat' = "idle"
    /\ state_lock' = "free"
    /\ UNCHANGED <<store, calls, poll, history>>
    /\ UNCHANGED <<shutdown_scheduled, process, hook>>

\* an alert or acknowledgement awaited inside the with-block ends
ChatReplyLocked ==
    /\ chat = "reply_locked"
    /\ chat' = "idle"
    /\ state_lock' = "free"
    /\ UNCHANGED <<store, calls, poll, history>>
    /\ UNCHANGED <<shutdown_scheduled, process, hook>>

\* ---- POST /send_message: send_message_to_agent (lines 283-309) ----------
SendMessageClamp == 120

\* the timeout of the request taken as it comes
MinUnclamped(a, b) == a

Min(a, b) == IF a < b THEN a ELSE b

\* whether the check "agent_id in message_queues and message_queues[agent_id]" passes
HasMessages(agent_id) ==
    agent_id \in DOMAIN message_queues /\ message_queues[agent_id] # <<>>

\* lines 295-297 and 305-307: the copy of the queue is returned, the queue cleared
Drain(agent_id, left) ==
    /\ poll' = [pc |-> "done", agent_id |-> agent_id, left |-> left,
                messages |-> message_queues[agent_id]]
    /\ message_queues' = [message_queues EXCEPT ![agent_id] = <<>>]
    /\ delivered' = Deliver(delivered, message_queues[agent_id])

\* lines 289-300: the first check of the queue; an empty queue starts the
\* loop, which runs while less than min(timeout, 120) seconds have passed;
\* left: the seconds of that time not yet slept
SendMessageCall(agent_id, timeout) ==
    /\ poll.pc \in {"idle", "done"}
    /\ state_lock = "free"
    /\ IF HasMessages(agent_id)
       THEN Drain(agent_id, Min(timeout, SendMessageClamp))
       ELSE /\ poll' = [pc |-> IF 0 < Min(timeout, SendMessageClamp)
                               THEN "sleep" ELSE "done",
                        agent_id |-> agent_id,
                        left |-> Min(timeout, SendMessageClamp),
                        messages |-> <<>>]
            /\ UNCHANGED <<message_queues, delivered>>
    /\ UNCHANGED <<pending_approvals, active_sessions, message_to_request,
                   bridge_paused, state_lock, calls, chat, updates, accepted, dropped>>
    /\ UNCHANGED <<shutdown_scheduled, process, hook>>

\* lines 301-309: one round of the loop, a sleep of one second and a check
SendMessagePoll ==
    /\ poll.pc = "sleep"
    /\ state_lock = "free"
    /\ IF HasMessages(poll.agent_id)
       THEN Drain(poll.agent_id, poll.left - 1)
       ELSE /\ poll' = [poll EXCEPT !.left = @ - 1,
                                    !.pc = IF 0 < poll.left - 1 THEN "sleep" ELSE "done"]
            /\ UNCHANGED <<message_queues, delivered>>
    /\ UNCHANGED <<pending_approvals, active_sessions, message_to_request,
                   bridge_paused, state_lock, calls, chat, updates, accepted, dropped>>
    /\ UNCHANGED <<shutdown_scheduled, process, hook>>

\* ---- session endpoints (lines 618-652) ----------------------------------
\* check_auto_approve: session.get("auto_approve", False)
check_auto_approve(agent_id) ==
    agent_id \in DOMAIN active_sessions /\ active_sessions[agent_id].auto_approve

\* register_agent merging into the session it finds (the flag survives)
RegisterAgentKeepFlag(agent_id, agent_name) ==
    /\ state_lock = "free"
    /\ active_sessions' = Put(active_sessions, agent_id,
           [name |-> agent_name, auto_approve |-> check_auto_approve(agent_id)])
    /\ message_queues' = IF agent_id \notin DOMAIN message_queues
                         THEN Put(message_queues, agent_id, <<>>)
                         ELSE message_queues
    /\ UNCHANGED <<pending_approvals, message_to_request, bridge_paused, state_lock,
                   calls, chat, poll, history, shutdown_scheduled, process, hook>>

\* register_agent (lines 627-641)
RegisterAgent(agent_id, agent_name) ==
    /\ state_lock = "free"
    /\ active_sessions' = Put(active_sessions, agent_id,
           [name |-> agent_name, auto_approve |-> FALSE])
    /\ message_queues' = IF agent_id \notin DOMAIN message_queues
                         THEN Put(message_queues, agent_id, <<>>)
                         ELSE message_queues
    /\ UNCHANGED <<pending_approvals, message_to_request, bridge_paused, state_lock,
                   calls, chat, poll, history>>
    /\ UNCHANGED <<shutdown_scheduled, process, hook>>

\* unregister_agent (lines 644-652)
UnregisterAgent(agent_id) ==
    /\ state_lock = "free"
    /\ active_sessions' = Pop(active_sessions, agent_id)
    /\ message_queues' = Pop(message_queues, agent_id)
    /\ dropped' = dropped \cup (IF agent_id \in DOMAIN message_queues
                                THEN Range(message_queues[agent_id]) ELSE {})
    /\ UNCHANGED <<pending_approvals, message_to_request, bridge_paused, state_lock,
                   calls, chat, poll, updates, accepted, delivered>>
    /\ UNCHANGED <<shutdown_scheduled, process, hook>>

\* ---- the system ---------------------------------------------------------
\* the steps of the /approve coroutine of call i
CallStep(i) ==
    \/ \E a \in AgentIds, n \in AgentNames : ApproveCall(i, a, n)
    \/ ApprovePeek(i)
    \/ ApproveCreate(i)
    \/ \E ok \in BOOLEAN : ApproveSend(i, ok)
    \/ \E ok \in BOOLEAN : ApproveRetry(i, ok)
    \/ ApproveMap(i)
    \/ ApproveWake(i)
    \/ ApproveDeadline(i)
    \/ ApproveExpire(i)
    \/ \E ok \in BOOLEAN : ApproveNotice(i, ok)
    \/ ApproveTake(i)

\* the agent ids the text of a replied-to message may contain: the handler
\* looks at the text of bot messages only
Mentions(target) ==
    IF target \in {OtherBotMsg} \cup PromptMids
    THEN AgentIds \cup {"none"} ELSE {"none"}

\* the steps of the chat dispatcher; an update the handler drops (wrong chat
\* id, malformed command) is drawn once, whatever else it carries
ChatStep ==
    \/ \E action \in ButtonActions, rid \in CallIds \cup {UnknownId} :
           HandleCallback(TRUE, action, rid)
    \/ HandleCallback(FALSE, "approve", UnknownId)
    \/ \E target \in ReplyTargets :
           \E mention \in Mentions(target) : HandleText(TRUE, target, mention)
    \/ HandleText(FALSE, NoReply, "none")
    \/ \E a \in AgentIds : CmdMsg(TRUE, TRUE, a)
    \/ \E auth \in BOOLEAN : CmdMsg(auth, FALSE, "main")
    \/ CmdMsg(FALSE, TRUE, "main")
    \/ \E auth \in BOOLEAN : CmdApproveAll(auth)
    \/ \E auth \in BOOLEAN : CmdDenyAll(auth)
    \/ \E auth \in BOOLEAN : CmdPause(auth)
    \/ \E auth \in BOOLEAN : CmdResume(auth)
    \/ \E ok \in BOOLEAN : ChatAnswer(ok)
    \/ ChatEdit
    \/ ChatReplyLocked

\* the commands that list or stop: /start, /status, /agents, /pending,
\* /shutdown
InfoStep ==
    \/ \E auth \in BOOLEAN : CmdStart(auth)
    \/ \E auth \in BOOLEAN : CmdStatus(auth)
    \/ \E auth \in BOOLEAN : CmdAgents(auth)
    \/ \E auth \in BOOLEAN : CmdPending(auth)
    \/ \E auth \in BOOLEAN, confirm \in BOOLEAN : CmdShutdown(auth, confirm)

\* the steps of the /send_message endpoint
PollStep ==
    \/ \E a \in AgentIds, t \in 0..MaxPollTimeout : SendMessageCall(a, t)
    \/ SendMessagePoll

\* the names a /register_agent caller gives
RegisterNames == AgentNames \cup {"Worker"}

\* the steps of the session endpoints
SessionStep ==
    \/ \E a \in AgentIds, n \in RegisterNames : RegisterAgent(a, n)
    \/ \E a \in AgentIds : UnregisterAgent(a)

\* Spec: concurrent /approve calls and the operator's chat
Next ==
    \/ \E i \in CallIds : CallStep(i)
    \/ ChatStep

Spec == Init /\ [][Next]_vars

\* SpecQueues: one /approve call, the operator's chat and /send_message
NextQueues ==
    \/ CallStep(1)
    \/ ChatStep
    \/ PollStep

SpecQueues == Init /\ [][NextQueues]_vars

\* SpecSessions: SpecQueues with the session endpoints
NextSessions ==
    \/ CallStep(1)
    \/ ChatStep
    \/ PollStep
    \/ SessionStep

SpecSessions == Init /\ [][NextSessions]_vars

\* button presses of the operator and the awaits of their handler
ButtonStep ==
    \/ \E action \in ButtonActions, rid \in CallIds \cup {UnknownId} :
           HandleCallback(TRUE, action, rid)
    \/ \E ok \in BOOLEAN : ChatAnswer(ok)
    \/ ChatEdit
    \/ ChatReplyLocked

\* SpecAuto: one /approve call, the buttons and the session endpoints
NextAuto ==
    \/ CallStep(1)
    \/ ButtonStep
    \/ SessionStep

SpecAuto == Init /\ [][NextAuto]_vars

\* the steps of a call whose prompt is sent at the first attempt and
\* answered before its deadline
PromptedCallStep(i) ==
    \/ \E a \in AgentIds, n \in AgentNames : ApproveCall(i, a, n)
    \/ ApprovePeek(i)
    \/ ApproveCreate(i)
    \/ ApproveSend(i, TRUE)
    \/ ApproveMap(i)
    \/ ApproveWake(i)
    \/ ApproveTake(i)

\* SpecButtons: concurrent /approve calls, with the chat API up and the
\* operator answering in time, and the buttons
NextButtons ==
    \/ \E i \in CallIds : PromptedCallStep(i)
    \/ ButtonStep

SpecButtons == Init /\ [][NextButtons]_vars

\* free texts of the operator
TextStep ==
    \E target \in ReplyTargets :
        \E mention \in Mentions(target) : HandleText(TRUE, target, mention)

\* SpecText: one /approve call, the buttons and the operator's free texts
NextText ==
    \/ CallStep(1)
    \/ ButtonStep
    \/ TextStep

SpecText == Init /\ [][NextText]_vars

\* /send_message calls that ask for more than the clamp
LongPollStep ==
    \E a \in AgentIds, t \in {SendMessageClamp + 1, 2 * SendMessageClamp} :
        SendMessageCall(a, t)

\* the operator's /msg commands
MsgStep == \E a \in AgentIds : CmdMsg(TRUE, TRUE, a)

\* SpecPoll: the /send_message endpoint and the /msg commands that fill the
\* queues; the sleep of one second of a round always ends, and nothing holds
\* state_lock across an await here
NextPoll ==
    \/ PollStep
    \/ LongPollStep
    \/ MsgStep

SpecPoll == Init /\ [][NextPoll]_vars /\ WF_vars(SendMessagePoll)

\* ---- the pre-tool hook (src/hooks/hook_pre_tool_use.py) -------------------
\* One run of the hook process, cut at its requests to the bridge.  The
\* hook is a sequential program: what the bridge answers is its input.
\* no tool held to be critical
NoCriticalTools == {}

CRITICAL_TOOLS == {"bash", "write", "edit", "execute"}

SAFE_TOOLS == {"read", "list_files", "search", "grep", "glob", "view"}

\* CLAUDE_BRIDGE_MODE
BridgeModes == {"local", "telegram", "notify"}
\* the tool the agent is about to use: a safe one, a critical one, another
ToolNames == {"read", "bash", "fetch"}
\* stdin of the hook: nothing, text that is not JSON, JSON that is not an
\* object, the JSON object the agent sends
RawInputs == {"empty", "invalid", "array", "object"}
\* what a bridge request comes to: an answer, or an exception of urlopen
\* (unreachable, timeout, HTTP error status) or of the parsing of the answer
Failed == "error"
\* the decisions /approve answers with, and an answer without "decision"
ApproveAnswers == {"approve", "deny", "passthrough", "missing", Failed}

\* the requests of this run, in order: <<endpoint, answer>>
Asked(endpoint, answer) == Append(hook.answers, <<endpoint, answer>>)
\* the endpoints requested in this run
Called == {hook.answers[k][1] : k \in DOMAIN hook.answers}
\* the answer of the request to an endpoint in this run, "none" without one
Answer(endpoint) ==
    IF \E k \in DOMAIN hook.answers : hook.answers[k][1] = endpoint
    THEN (CHOOSE a \in {hook.answers[k] : k \in DOMAIN hook.answers} :
              a[1] = endpoint)[2]
    ELSE "none"

\* output(data) followed by return: the decision is printed, the run ends
Output(h, decision) ==
    [h EXCEPT !.pc = "done", !.emitted = Append(@, decision)]
\* return without output
Return(h) == [h EXCEPT !.pc = "done"]

\* a request the bridge answers needs the HTTP server serving and, for the
\* endpoints that take state_lock, the lock released within the timeout of
\* the request
BridgeAnswers ==
    /\ ~process.exited
    /\ process.supervisor = "serve"
    /\ state_lock = "free"

\* main, lines 20-40: the mode, stdin and the tool name
HookMain(mode, raw, tool_name, agent_id) ==
    /\ hook.pc \in {"idle", "done"}
    /\ LET h == [IdleHook EXCEPT !.mode = mode, !.agent_id = agent_id,
                                 \* line 35 is reached with a JSON object only
                                 !.tool_name = IF mode # "local" /\ raw = "object"
                                               THEN tool_name ELSE "unknown"] IN
       hook' = IF mode = "local" THEN Return(h)
               ELSE IF raw \in {"empty", "invalid"} THEN Output(h, "approve")
               ELSE IF raw = "array" THEN Return(h)  \* AttributeError, line 35
               ELSE IF tool_name \in SAFE_TOOLS THEN Output(h, "approve")
               ELSE [h EXCEPT !.pc = "status"]
    /\ UNCHANGED <<store, state_lock, shutdown_scheduled, process,
                   calls, chat, poll, history>>

\* lines 42-52: GET /status; lines 54 and 75 choose the next request
HookStatus(ok) ==
    /\ hook.pc = "status"
    /\ ok => BridgeAnswers
    /\ LET h == [hook EXCEPT !.answers = Asked("/status", IF ok THEN "running" ELSE Failed)] IN
       hook' = IF ~ok THEN Output(h, "approve")
               ELSE IF hook.mode = "notify" THEN [h EXCEPT !.pc = "notify"]
               ELSE IF hook.tool_name \notin CRITICAL_TOOLS THEN [h EXCEPT !.pc = "check"]
               ELSE [h EXCEPT !.pc = "approve"]
    /\ UNCHANGED <<store, state_lock, shutdown_scheduled, process,
                   calls, chat, poll, history>>

\* lines 54-73: POST /notify in notify mode
HookNotify(ok) ==
    /\ hook.pc = "notify"
    /\ ok => BridgeAnswers
    /\ hook' = Output([hook EXCEPT !.answers = Asked("/notify", IF ok THEN "sent" ELSE Failed)],
                      "approve")
    /\ UNCHANGED <<store, state_lock, shutdown_scheduled, process,
                   calls, chat, poll, history>>

\* lines 75-90: POST /check_auto_approve, answered from active_sessions
HookCheck(ok) ==
    /\ hook.pc = "check"
    /\ ok => BridgeAnswers
    /\ LET auto == check_auto_approve(hook.agent_id)
           h == [hook EXCEPT !.answers =
                    Asked("/check_auto_approve",
                          IF ~ok THEN Failed ELSE IF auto THEN "true" ELSE "false")] IN
       hook' = IF ok /\ auto THEN Output(h, "approve")
               ELSE [h EXCEPT !.pc = "approve"]
    /\ UNCHANGED <<store, state_lock, shutdown_scheduled, process,
                   calls, chat, poll, history>>

\* lines 92-133: POST /approve and what the hook makes of the answer
HookApprove(answer) ==
    /\ hook.pc = "approve"
    /\ answer # Failed => ~process.exited /\ process.supervisor = "serve"
    /\ LET h == [hook EXCEPT !.answers = Asked("/approve", answer)] IN
       hook' = IF answer = Failed THEN Output(h, "approve")
               ELSE IF answer = "passthrough" THEN Return(h)
               ELSE IF answer = "missing" THEN Output(h, "deny")
               ELSE Output(h, answer)
    /\ UNCHANGED <<store, state_lock, shutdown_scheduled, process,
                   calls, chat, poll, history>>

\* the steps of the hook process
HookStep ==
    \/ \E mode \in BridgeModes, raw \in RawInputs, tool_name \in ToolNames,
          agent_id \in AgentIds : HookMain(mode, raw, tool_name, agent_id)
    \/ \E ok \in BOOLEAN : HookStatus(ok)
    \/ \E ok \in BOOLEAN : HookNotify(ok)
    \/ \E ok \in BOOLEAN : HookCheck(ok)
    \/ \E answer \in ApproveAnswers : HookApprove(answer)

\* SpecHook: the hook process beside a bridge whose sessions change: one
\* /approve call with its prompt and the buttons (the approve_all button
\* sets auto_approve)
NextHook ==
    \/ HookStep
    \/ PromptedCallStep(1)
    \/ ButtonStep

SpecHook == Init /\ [][NextHook]_vars

\* SpecLive: one /approve call and the operator's chat, with the scheduling
\* the event loop gives: the coroutine of the call is resumed whenever it
\* can run again and again (the deadline timer fires, the lock is granted
\* to a waiter in turn), and an await of chat I/O under the lock ends
NextLive ==
    \/ CallStep(1)
    \/ ChatStep

ChatAwaitEnds ==
    \/ \E ok \in BOOLEAN : ChatAnswer(ok)
    \/ ChatEdit
    \/ ChatReplyLocked

SpecLive ==
    /\ Init
    /\ [][NextLive]_vars
    /\ SF_vars(CallStep(1))
    /\ WF_vars(ChatAwaitEnds)

\* SpecChat: one /approve call and every handler of the operator's chat
NextChat ==
    \/ CallStep(1)
    \/ ChatStep
    \/ InfoStep

SpecChat == Init /\ [][NextChat]_vars

\* ---- the process: run_both (lines 671-722) and the scheduled exit --------
\* an HTTP request the server has not answered yet
InFlight ==
    \/ \E i \in CallIds : calls[i].pc \notin {"idle", "done"}
    \/ poll.pc = "sleep"

\* the callback of call_later(1, lambda: os._exit(0)) runs (line 472): the
\* process ends there, whatever its tasks are doing
ProcessExit ==
    /\ shutdown_scheduled
    /\ ~process.exited
    /\ process' = [process EXCEPT !.exited = TRUE]
    /\ UNCHANGED <<store, state_lock, shutdown_scheduled, hook,
                   calls, chat, poll, history>>

\* the polling task started at line 699 ends on an error it does not retry;
\* run_both awaits server.serve() only
PollerEnds ==
    /\ ~process.exited
    /\ process.poller = "polling"
    /\ process' = [process EXCEPT !.poller = "stopped"]
    /\ UNCHANGED <<store, state_lock, shutdown_scheduled, hook,
                   calls, chat, poll, history>>

\* server.serve() returns (line 718) after a termination signal, once the
\* requests in flight are answered
ServeReturns ==
    /\ ~process.exited
    /\ process.supervisor = "serve"
    /\ ~InFlight
    /\ process' = [process EXCEPT !.supervisor = "finally"]
    /\ UNCHANGED <<store, state_lock, shutdown_scheduled, hook,
                   calls, chat, poll, history>>

\* the finally clause (lines 719-722) stops the poller; run_both returns
\* and the process ends
StopPoller ==
    /\ ~process.exited
    /\ process.supervisor = "finally"
    /\ chat = "idle"
    /\ process' = [supervisor |-> "done", poller |-> "stopped", exited |-> TRUE]
    /\ UNCHANGED <<store, state_lock, shutdown_scheduled, hook,
                   calls, chat, poll, history>>

\* the HTTP server takes and runs requests
Serving == ~process.exited /\ process.supervisor = "serve"
\* the chat poller fetches updates and runs their handlers
Polling == ~process.exited /\ process.poller = "polling"

\* SpecProcess: SpecChat inside the life of the process
NextProcess ==
    \/ Serving /\ CallStep(1)
    \/ Polling /\ ChatStep
    \/ Polling /\ InfoStep
    \/ ProcessExit
    \/ PollerEnds
    \/ ServeReturns
    \/ StopPoller

SpecProcess == Init /\ [][NextProcess]_vars

\* ---- outcomes of a call -------------------------------------------------
\* the call has answered its HTTP caller
Ended(i) == calls[i].pc = "done"
\* ... through the signaled path (lines 263-280)
Signaled(i) == Ended(i) /\ calls[i].resp.status = 200 /\ calls[i].resp.request_id = i
\* ... through the timeout path (lines 252-261)
TimedOut(i) == Ended(i) /\ calls[i].resp.status = 200 /\ calls[i].resp.reason = "timeout"
Last(seq) == seq[Len(seq)]

\* ---- claims -------------------------------------------------------------

\* C1: for one request_id the result slot is written at most once (later
\* resolution events are no-ops) and a signaled /approve returns the
\* decision of the first resolver.
C1_FirstResolverWins ==
    \A i \in CallIds :
        /\ Len(accepted[i]) <= 1
        /\ (Signaled(i) /\ accepted[i] # <<>>
               => calls[i].resp.decision = accepted[i][1].response)

\* C2: signaled and timed out exclude each other: a call answered with
\* deny/timeout had no chat event accepted for its record, and a call whose
\* record had a chat event accepted is answered with such an event's decision.
C2_SignaledXorTimedOut ==
    \A i \in CallIds :
        /\ (TimedOut(i) => accepted[i] = <<>>)
        /\ (Ended(i) /\ calls[i].resp.status = 200 /\ accepted[i] # <<>>
               => \E k \in DOMAIN accepted[i] :
                      calls[i].resp.decision = accepted[i][k].response)

\* C3: every /approve call that has ended answered its caller with a
\* decision among approve, deny and passthrough.
C3_OneValidDecision ==
    \A i \in CallIds :
        Ended(i) => /\ calls[i].resp.status = 200
                    /\ calls[i].resp.decision \in {"approve", "deny", "passthrough"}

\* C4: once a call has ended, pending_approvals holds no record of its
\* request_id and message_to_request no entry for it.
C4_NoRecordAfterReturn ==
    \A i \in CallIds :
        Ended(i) => /\ i \notin DOMAIN pending_approvals
                    /\ \A m \in DOMAIN message_to_request : message_to_request[m] # i

C6_DeliveredAtMostOnce == \A t \in Texts : delivered[t] <= 1

\* C7: no text leaves a queue without being in the response of the call
\* that removed it.
C7_RemovedOnlyWhenDelivered == dropped = {}

\* all texts in the order the operator sent them
Numbered == [n \in 1..MaxUpdates |-> Text(n)]
\* the texts of S in the order the operator sent them
InArrivalOrder(S) == SelectSeq(Numbered, LAMBDA t : t \in S)
\* the text of the latest reply accepted for request i, "" when there is none
ReplyTextOf(i) ==
    LET replies == SelectSeq(accepted[i], LAMBDA e : e.by = "reply")
    IN IF replies = <<>> THEN "" ELSE Last(replies).text
\* the instruction lines a signaled call i is to return: the texts queued
\* for its agent when it looked at the queue, then the reply text
InstructionLines(i) ==
    InArrivalOrder(Range(calls[i].pending_messages)
                   \cup (IF ReplyTextOf(i) # "" THEN {ReplyTextOf(i)} ELSE {}))

AcceptedBy(i) == [k \in DOMAIN accepted[i] |-> accepted[i][k].by]

WithInstructions(i, r) ==
    IF calls[i].pending_messages = <<>> THEN r
    ELSE r \o "\n\nUser instructions:\n" \o Join(calls[i].pending_messages)

C10_StaleEventNoChange ==
    [][\A rid \in CallIds \cup {UnknownId} :
          rid \notin DOMAIN pending_approvals =>
             /\ \A action \in ButtonActions :
                    HandleCallback(TRUE, action, rid) => UNCHANGED store
             /\ \A mention \in AgentIds \cup {"none"} :
                    /\ rid \in CallIds
                    /\ calls[rid].sent_message = PromptMid(rid)
                    /\ HandleText(TRUE, PromptMid(rid), mention)
                    => UNCHANGED store]_vars

\* an update of any kind from a chat other than TELEGRAM_CHAT_ID is handled
Unauthorized ==
    \/ \E action \in ButtonActions, rid \in CallIds \cup {UnknownId} :
           HandleCallback(FALSE, action, rid)
    \/ \E target \in ReplyTargets, mention \in AgentIds \cup {"none"} :
           HandleText(FALSE, target, mention)
    \/ \E valid \in BOOLEAN, a \in AgentIds : CmdMsg(FALSE, valid, a)
    \/ CmdApproveAll(FALSE) \/ CmdDenyAll(FALSE)
    \/ CmdPause(FALSE) \/ CmdResume(FALSE)
    \/ CmdStart(FALSE) \/ CmdStatus(FALSE)
    \/ CmdAgents(FALSE) \/ CmdPending(FALSE)
    \/ \E confirm \in BOOLEAN : CmdShutdown(FALSE, confirm)

\* C11: a chat update whose chat id is not the configured one changes none
\* of pending_approvals (so no response, reason or event of a record),
\* active_sessions, message_queues, message_to_request and bridge_paused,
\* and schedules no shutdown.
C11_UnauthorizedNoEffect ==
    [][Unauthorized => UNCHANGED <<store, shutdown_scheduled>>]_vars

\* C11 witness: the dispatcher is ready for an update while there is
\* something an update could change: a record not yet signaled, a queued
\* message, the bridge running and not paused
C11_Witness ==
    /\ chat = "idle"
    /\ state_lock = "free"
    /\ ~shutdown_scheduled
    /\ ~bridge_paused
    /\ \E i \in DOMAIN pending_approvals : ~pending_approvals[i].event
    /\ \E a \in DOMAIN message_queues : message_queues[a] # <<>>

\* C12: once check_auto_approve(id) answers true it keeps answering true
\* over every step that is not unregister_agent(id).
C12_StickyUntilUnregister ==
    [][\A a \in AgentIds :
          check_auto_approve(a) /\ ~UnregisterAgent(a) => check_auto_approve(a)']_vars

\* C13: after register_agent(id, name), check_auto_approve(id) answers false
\* and the session of id carries that name, whatever the session table held.
C13_RegisterResets ==
    [][\A a \in AgentIds, n \in RegisterNames :
          RegisterAgent(a, n) =>
             /\ ~check_auto_approve(a)'
             /\ a \in DOMAIN active_sessions'
             /\ active_sessions'[a].name = n
             /\ \A b \in DOMAIN active_sessions \ {a} :
                    b \in DOMAIN active_sessions' /\ active_sessions'[b] = active_sessions[b]]_vars

\* C13 witness: agent "main" is registered under the name "Worker" and not
\* auto-approved, while a call of "main" under the name "CC" was resolved
\* by the approve_all button (which had set the flag and the name "CC")
C13_Witness ==
    /\ "main" \in DOMAIN active_sessions
    /\ active_sessions["main"] = [name |-> "Worker", auto_approve |-> FALSE]
    /\ \E i \in CallIds :
           /\ calls[i].agent_id = "main"
           /\ \E k \in DOMAIN accepted[i] : accepted[i][k].by = "approve_all"

\* the answer of the timeout path
TimeoutResp == [status |-> 200, decision |-> "deny", reason |-> "timeout", request_id |-> 0]

\* C14: a call whose deadline fired removes its record and its
\* message_to_request entry in one step, posts the expiration notice and
\* answers {decision: deny, reason: timeout}.
C14_TimeoutPath ==
    /\ [][\A i \in CallIds :
             calls[i].pc = "expire" /\ calls'[i].pc # "expire"
             => /\ i \notin DOMAIN pending_approvals'
                /\ \A m \in DOMAIN message_to_request' : message_to_request'[m] # i]_vars
    /\ [][\A i \in CallIds :
             calls[i].pc = "notice" /\ calls'[i].pc # "notice"
             => Ended(i)' /\ calls'[i].resp = TimeoutResp]_vars

\* both sends of the prompt of call i have failed
BothSendsFailed(i) ==
    /\ calls[i].chatted
    /\ calls[i].sent_message = NoMessage
    /\ calls[i].pc # "retry"

\* C15: a call whose prompt could be sent neither with markup nor as plain
\* text goes on to wait on its event, and when it has ended it has answered
\* with a decision (deny/timeout unless a bulk command resolved it) and its
\* record is removed.
C15_SendFailureStillWaits ==
    \A i \in CallIds :
        BothSendsFailed(i) =>
           \/ calls[i].pc \in {"wait", "take", "expire", "notice"}
           \/ /\ Ended(i)
              /\ calls[i].resp.status = 200
              /\ calls[i].resp.decision \in {"approve", "deny"}
              /\ i \notin DOMAIN pending_approvals

\* C16: every record stored in pending_approvals is eventually removed,
\* with its call answered by a decision.
C16_RecordEventuallyRemoved ==
    \A i \in CallIds :
        (i \in DOMAIN pending_approvals)
            ~> (i \notin DOMAIN pending_approvals /\ Ended(i) /\ calls[i].resp.status = 200)

BulkEvents(i) == {k \in DOMAIN accepted[i] : accepted[i][k].by = "bulk"}

\* C18: /approve_all (/deny_all) from the authorized chat writes decision
\* approve (deny) and reason "bulk approved" ("bulk denied") into every
\* record of pending_approvals and signals each, changing no session, queue
\* or pause flag and adding or removing no record; and every call whose
\* record a bulk command completed answers with that command's decision.
C18_BulkCompletesAll ==
    /\ [][\A c \in {<<"approve", "bulk approved">>, <<"deny", "bulk denied">>} :
             CmdBulk(TRUE, c[1], c[2]) =>
                /\ DOMAIN pending_approvals' = DOMAIN pending_approvals
                /\ \A r \in DOMAIN pending_approvals :
                       pending_approvals'[r] =
                           [pending_approvals[r] EXCEPT !.response = c[1],
                                                        !.reason = c[2],
                                                        !.event = TRUE]
                /\ UNCHANGED <<active_sessions, message_queues, bridge_paused>>]_vars
    /\ [][\A i \in CallIds :
             ~Ended(i) /\ Ended(i)' =>
                \A k \in BulkEvents(i) :
                    /\ calls'[i].resp.status = 200
                    /\ calls'[i].resp.decision = accepted[i][k].response]_vars

\* the queue of agent a in q, empty when a has none
QueueOf(q, a) == IF a \in DOMAIN q THEN q[a] ELSE <<>>

\* C19: an authorized free text that replies to the prompt of a pending
\* record writes approve / "approved with instructions" / the text into
\* that record, signals it and enqueues nothing; any other authorized free
\* text is appended to the queue of exactly one agent (the known agent
\* named in the replied-to bot message, otherwise "main") and changes no
\* record.
C19_FreeTextRouting ==
    [][\A target \in ReplyTargets, mention \in AgentIds \cup {"none"} :
          HandleText(TRUE, target, mention) =>
             IF /\ target \in DOMAIN message_to_request
                /\ message_to_request[target] \in DOMAIN pending_approvals
             THEN LET rid == message_to_request[target] IN
                  /\ pending_approvals' =
                        [pending_approvals EXCEPT ![rid] =
                            [@ EXCEPT !.response = "approve",
                                      !.reason = "approved with instructions",
                                      !.user_message = Text(updates'),
                                      !.event = TRUE]]
                  /\ UNCHANGED message_queues
             ELSE LET a == IF /\ target \in {OtherBotMsg} \cup PromptMids
                              /\ mention \in DOMAIN active_sessions \cup {"main"}
                           THEN mention ELSE "main" IN
                  /\ UNCHANGED pending_approvals
                  /\ DOMAIN message_queues' = DOMAIN message_queues \cup {a}
                  /\ message_queues'[a] = Append(QueueOf(message_queues, a), Text(updates'))
                  /\ \A b \in DOMAIN message_queues \ {a} :
                         message_queues'[b] = message_queues[b]]_vars

\* C19 witness: a text was queued for the known agent "w1" named in the
\* replied-to bot message (under SpecText only a free text fills a queue)
C19_Witness ==
    /\ "w1" \in DOMAIN active_sessions
    /\ "w1" \in DOMAIN message_queues
    /\ message_queues["w1"] # <<>>

\* the timeouts /send_message is called with
PollTimeouts == (0..MaxPollTimeout) \cup {SendMessageClamp + 1, 2 * SendMessageClamp}

\* C20: /send_message for agent A returns at once the whole queue of A and
\* leaves it empty when the queue is non-empty at call time; otherwise it
\* checks once per second, returns the whole queue at the first check that
\* finds it non-empty, returns the empty list when min(timeout, 120)
\* seconds have passed, and it always terminates.
C20_SendMessage ==
    /\ [][\A a \in AgentIds, t \in PollTimeouts :
             SendMessageCall(a, t) =>
                IF a \in DOMAIN message_queues /\ Len(message_queues[a]) > 0
                THEN /\ poll'.pc = "done"
                     /\ poll'.messages = message_queues[a]
                     /\ message_queues' = [message_queues EXCEPT ![a] = <<>>]
                ELSE /\ poll'.left = (IF t < 120 THEN t ELSE 120)
                     /\ poll'.messages = <<>>
                     /\ poll'.pc = (IF poll'.left = 0 THEN "done" ELSE "sleep")
                     /\ UNCHANGED message_queues]_vars
    /\ [][SendMessagePoll =>
             LET a == poll.agent_id IN
             /\ poll'.left = poll.left - 1
             /\ IF a \in DOMAIN message_queues /\ Len(message_queues[a]) > 0
                THEN /\ poll'.pc = "done"
                     /\ poll'.messages = message_queues[a]
                     /\ message_queues' = [message_queues EXCEPT ![a] = <<>>]
                ELSE /\ poll'.messages = <<>>
                     /\ poll'.pc = (IF poll'.left = 0 THEN "done" ELSE "sleep")
                     /\ UNCHANGED message_queues]_vars
    /\ [](poll.pc = "sleep" => poll.left \in 1..120)
    /\ (poll.pc = "sleep") ~> (poll.pc = "done")

\* C20 witness: a call that asked for more than 120 seconds found the queue
\* empty, started with 120 seconds and has slept through its first round
C20_Witness ==
    /\ poll.pc = "sleep"
    /\ poll.left = SendMessageClamp - 1
    /\ poll.messages = <<>>

\* the bridge requests of this run of the hook that failed
FailedCalls == {e \in Called : Answer(e) = Failed}

\* C21: in telegram or notify mode, a run of the pre-tool hook in which
\* /status, /check_auto_approve or /approve failed ends having printed
\* approve; a run in which /approve answered passthrough ends having
\* printed nothing; no run prints more than one decision.
C21_HookFailsOpen ==
    /\ Len(hook.emitted) <= 1
    /\ hook.pc = "done" /\ hook.mode \in {"telegram", "notify"} =>
          /\ FailedCalls \cap {"/status", "/check_auto_approve", "/approve"} # {}
                => hook.emitted = <<"approve">>
          /\ Answer("/approve") = "passthrough" => hook.emitted = <<>>

\* C22: in telegram mode with a bridge that answers /status, the hook
\* approves a safe tool without requesting /check_auto_approve or /approve;
\* for a critical tool it never requests /check_auto_approve and always
\* requests /approve, whatever the session's auto_approve; for any other
\* tool it skips /approve exactly when /check_auto_approve answered true.
C22_ToolClasses ==
    hook.pc = "done" /\ hook.mode = "telegram" =>
        /\ hook.tool_name \in {"read", "list_files", "search", "grep", "glob", "view"} =>
              /\ Called \cap {"/check_auto_approve", "/approve"} = {}
              /\ hook.emitted = <<"approve">>
        /\ Answer("/status") = "running" =>
              /\ hook.tool_name \in {"bash", "write", "edit", "execute"} =>
                    /\ "/check_auto_approve" \notin Called
                    /\ "/approve" \in Called
              /\ hook.tool_name \notin {"bash", "write", "edit", "execute"} =>
                    /\ "/check_auto_approve" \in Called
                    /\ "/approve" \notin Called <=> Answer("/check_auto_approve") = "true"

\* C22 witness: a critical tool went to /approve while the session of the
\* hook's agent has auto_approve set
C22_Witness ==
    /\ hook.pc = "done"
    /\ hook.mode = "telegram"
    /\ hook.tool_name \in CRITICAL_TOOLS
    /\ "/approve" \in Called
    /\ check_auto_approve(hook.agent_id)

\* C23: on an authorized /shutdown confirm the process exits only after the
\* chat poller has been stopped and the HTTP requests in flight have been
\* answered; an authorized /shutdown without confirm schedules no exit.
C23_GracefulShutdown ==
    /\ [][~process.exited /\ process.exited' =>
             /\ process.poller = "stopped" \/ process.supervisor = "finally"
             /\ ~InFlight]_vars
    /\ [][CmdShutdown(TRUE, FALSE) => UNCHANGED shutdown_scheduled]_vars

\* C26: the chat poller and the HTTP server are supervised together: when
\* the HTTP server has ended the poller is stopped, and when the poller has
\* ended the HTTP server is not left serving.
C26_SupervisedTogether ==
    /\ process.supervisor = "done" => process.poller = "stopped"
    /\ ~process.exited /\ process.poller = "stopped" =>
           process.supervisor # "serve"

\* C24: in every reachable state each entry of message_to_request refers to
\* a request_id that is a key of pending_approvals.
C24_MappingRefersToRecord ==
    \A m \in DOMAIN message_to_request :
        message_to_request[m] \in DOMAIN pending_approvals

\* C24 witness: a call whose prompt was sent and mapped has ended by
\* timeout, and its mapping entry is gone with its record
C24_Witness ==
    /\ TimedOut(1)
    /\ calls[1].sent_message = PromptMid(1)
    /\ PromptMid(1) \notin DOMAIN message_to_request
    /\ 1 \notin DOMAIN pending_approvals

\* C25: no task holds state_lock while it is suspended on outbound chat
\* I/O: whenever a chat handler awaits an answer, an edit or a reply, the
\* lock is free.
C25_NoLockAcrossChatIO ==
    chat \in {"answer", "edit", "reply_locked"} => state_lock = "free"

\* the call has stored its record and has not answered yet
HasRecord(i) ==
    calls[i].pc \in {"send", "retry", "map", "wait", "take", "expire", "notice"}

\* C27: /pause and /resume change only the pause flag, and a call whose
\* record is stored while the bridge is paused still ends with an approve
\* or deny decision, never passthrough.
C27_PauseKeepsPending ==
    /\ [][\A value \in BOOLEAN :
             CmdSetPaused(TRUE, value) =>
                /\ bridge_paused' = value
                /\ UNCHANGED <<pending_approvals, active_sessions, message_queues,
                               message_to_request, calls>>]_vars
    /\ [][\A i \in CallIds :
             bridge_paused /\ HasRecord(i) /\ Ended(i)' =>
                /\ calls'[i].resp.status = 200
                /\ calls'[i].resp.decision \in {"approve", "deny"}]_vars

\* C28: the timeout path of an /approve call (the removal of the record,
\* the notice, the answer) leaves every message queue as it is and counts
\* no text as delivered; the timeout answer carries the reason "timeout"
\* alone, without the messages shown in the prompt.
C28_TimeoutKeepsQueue ==
    [][\A i \in CallIds :
          calls[i].pc \in {"expire", "notice"} /\ calls'[i] # calls[i] =>
             /\ message_queues' = message_queues
             /\ delivered' = delivered
             /\ Ended(i)' /\ calls'[i].resp.status = 200 =>
                   /\ calls'[i].resp.decision = "deny"
                   /\ calls'[i].resp.reason = "timeout"]_vars

\* C28 witness: a call that showed queued messages in its prompt has ended
\* by timeout and those messages are still the queue of its agent
C28_Witness ==
    /\ TimedOut(1)
    /\ calls[1].pending_messages # <<>>
    /\ calls[1].agent_id \in DOMAIN message_queues
    /\ message_queues[calls[1].agent_id] = calls[1].pending_messages

\* C29: a session is created only by register_agent: a step that makes an
\* agent's session appear, or its check_auto_approve turn true, is a
\* register_agent of that agent; in particular an approve_all button on a
\* record of an unregistered agent creates no session.
C29_SessionOnlyByRegister ==
    [][\A a \in AgentIds :
          /\ a \notin DOMAIN active_sessions
          /\ a \in DOMAIN active_sessions'
          => \E n \in RegisterNames : RegisterAgent(a, n)]_vars

====
